---- MODULE Spec2Model ----
(***************************************************************************)
(* Model of tutorial_code/embed_square_lattice.py: the lattice BQM that    *)
(* embed_square_lattice builds, the cache file it loads with np.loadtxt    *)
(* and writes with np.savetxt, and the raster embedding search it falls    *)
(* back to.  Each call is a small process: build, load, search, makedirs,  *)
(* save.                                                                   *)
(***************************************************************************)
EXTENDS Integers, Sequences, FiniteSets, TLC

\* ------------------------------------------------------------------ bounds
MaxL     == 3      \* lattice lengths 1..MaxL are requested
MaxEmb   == 2      \* the search returns at most MaxEmb embeddings
MaxEvents == 2     \* calls and external changes in one behaviour

Procs == {1, 2}
\* the callers that take turns in Spec
Callers == {1}
Chips == {"Adv4", "Adv4__L0"}
Ls    == 1..MaxL

\* a token of a text file that is not an integer literal
NonInt == -1

\* ------------------------------------------------------- cache file name
DigitChars == <<"0", "1", "2", "3", "4", "5", "6", "7", "8", "9">>

RECURSIVE ToDec(_)
ToDec(n) == IF n < 10 THEN DigitChars[n + 1]
            ELSE ToDec(n \div 10) \o DigitChars[(n % 10) + 1]

\* format spec 02d for n >= 0: decimal, zero-padded to width 2
Format02d(n) == IF n < 10 THEN "0" \o ToDec(n) ELSE ToDec(n)

cache_filename_nochip(solver_name, L) ==
    "cached_embeddings/" \o "__L" \o Format02d(L) \o "_square_embeddings_cached.txt"

cache_filename(solver_name, L) ==
    "cached_embeddings/" \o solver_name \o "__L" \o Format02d(L)
        \o "_square_embeddings_cached.txt"

Keys  == Chips \X Ls
Paths == {cache_filename(k[1], k[2]) : k \in Keys}

\* ------------------------------------------------------------ lattice BQM
\* a BQM: variables in insertion order, quadratic biases by unordered pair,
\* err = a ValueError was raised while building it
EmptyBQM == [variables |-> <<>>, quadratic |-> [e \in {} |-> 0], err |-> FALSE]

\* lines 39-41: add_variable(x * L + y), x outermost
AddVariables(L) == [i \in 1..(L * L) |-> ((i - 1) \div L) * L + ((i - 1) % L)]

\* lines 45-48: the call for the neighbour in the row of node i = x*L + y
RowCall(L, i) ==
    LET x == i \div L
        y == i % L
    IN  <<x * L + y, x * L + ((y + 1) % L), IF (x + y) % 2 = 1 THEN 1 ELSE -1>>

\* lines 49-50: the call for the neighbour in the next row; bias 0 = no call
ColumnCall(L, i) ==
    LET x == i \div L
        y == i % L
    IN  IF x < L - 1 THEN <<x * L + y, (x + 1) * L + y, 1>> ELSE <<0, 0, 0>>

IsCall(c) == c[3] # 0

\* lines 43-50: the set_quadratic calls <<u, v, bias>> in the order made
SetQuadraticCalls(L) ==
    SelectSeq([k \in 1..(2 * L * L) |->
                  IF k % 2 = 1 THEN RowCall(L, (k - 1) \div 2)
                  ELSE ColumnCall(L, (k - 1) \div 2)],
              IsCall)

CallsOn(calls, e) == {k \in 1..Len(calls) : {calls[k][1], calls[k][2]} = e}

set_quadratic_keep(calls, e) ==
    calls[CHOOSE k \in CallsOn(calls, e) : \A j \in CallsOn(calls, e) : k <= j][3]

\* set_quadratic overwrites: the bias of pair e is the one of the last call on e
set_quadratic(calls, e) ==
    calls[CHOOSE k \in CallsOn(calls, e) : \A j \in CallsOn(calls, e) : k >= j][3]

\* lines 37-50; set_quadratic raises ValueError for a variable paired with itself
BuildBQM(L) ==
    LET calls == SetQuadraticCalls(L)
    IN  [variables |-> AddVariables(L),
         quadratic |-> [e \in {{calls[k][1], calls[k][2]} : k \in 1..Len(calls)} |->
                           set_quadratic(calls, e)],
         err       |-> \E k \in 1..Len(calls) : calls[k][1] = calls[k][2]]

\* sorted(...) of a sequence of distinct integers
sorted(s) ==
    LET S == {s[i] : i \in 1..Len(s)}
    IN  [i \in 1..Len(s) |-> CHOOSE v \in S : Cardinality({w \in S : w < v}) = i - 1]

\* ---------------------------------------------------------------- ndarray
\* an array: its shape and its elements in row-major order
RECURSIVE Flatten(_)
Flatten(rows) == IF rows = <<>> THEN <<>> ELSE Head(rows) \o Flatten(Tail(rows))

\* a dict as the search returns it: <<key, value>> pairs in insertion order
Lookup(d, k) == d[CHOOSE i \in 1..Len(d) : d[i][1] = k][2]

embeddings_to_ndarray_positional(embs, node_order) ==
    IF embs = <<>> THEN [shape |-> <<0>>, data |-> <<>>]
    ELSE [shape |-> <<Len(embs), Len(node_order)>>,
          data  |-> Flatten([i \in 1..Len(embs) |->
                             [j \in 1..Len(node_order) |-> embs[i][j][2]]])]

\* np.asarray([[emb[v] for v in node_order] for emb in embs])
embeddings_to_ndarray(embs, node_order) ==
    IF embs = <<>> THEN [shape |-> <<0>>, data |-> <<>>]
    ELSE [shape |-> <<Len(embs), Len(node_order)>>,
          data  |-> Flatten([i \in 1..Len(embs) |->
                             [j \in 1..Len(node_order) |-> Lookup(embs[i], node_order[j])]])]

\* ------------------------------------------------------------- text files
Absent == [kind |-> "absent", lines |-> <<>>]
TextFile(lines) == [kind |-> "text", lines |-> lines]

\* np.savetxt(fname, X, fmt='%d'): one line per row; a 1-D array is written
\* as a column
savetxt(X) ==
    IF Len(X.shape) = 2
    THEN [i \in 1..X.shape[1] |-> SubSeq(X.data, (i - 1) * X.shape[2] + 1, i * X.shape[2])]
    ELSE [i \in 1..X.shape[1] |-> <<X.data[i]>>]

\* the exception np.loadtxt(fname, dtype=int) raises on the file, "" if none
loadtxt_raises(file) ==
    IF file.kind = "absent" THEN "FileNotFoundError"
    ELSE IF file.kind = "noperm" THEN "PermissionError"
    ELSE IF file.kind = "isdir" THEN "IsADirectoryError"
    ELSE IF \E i \in 1..Len(file.lines) : \E j \in 1..Len(file.lines[i]) :
                file.lines[i][j] = NonInt
         THEN "ValueError"
    ELSE IF \E i \in 1..Len(file.lines) : Len(file.lines[i]) # Len(file.lines[1])
         THEN "ValueError"
    ELSE ""

NotOne(d) == d # 1

\* np.loadtxt squeezes the axes of length one out of the matrix it read
loadtxt(file) ==
    IF file.lines = <<>> THEN [shape |-> <<0>>, data |-> <<>>]
    ELSE [shape |-> SelectSeq(<<Len(file.lines), Len(file.lines[1])>>, NotOne),
          data  |-> Flatten(file.lines)]

\* ------------------------------------------------- raster embedding search
\* the i-th embedding of a search result; a dict lists its keys in the order
\* the search inserted them, ascending or descending
Orders == {"asc", "desc"}

Flip(ord) == IF ord = "asc" THEN "desc" ELSE "asc"

CandValue(i, n, ord, v) == IF ord = "asc" THEN 2 * i * n + v ELSE 2 * i * n + 2 * n - 1 - v

CandDict(i, n, ord) ==
    [j \in 1..n |-> LET v == IF ord = "asc" THEN j - 1 ELSE n - j
                    IN  <<v, CandValue(i, n, ord, v)>>]

\* what raster_embedding_search can return for a source graph of n nodes:
\* no embedding, or k embeddings, their key orders alternating from ord
raster_embedding_search(n) ==
    {<<>>} \cup {[i \in 1..k |-> CandDict(i, n, IF i % 2 = 1 THEN ord ELSE Flip(ord))] :
                    ord \in Orders, k \in 1..MaxEmb}

\* contents an external writer can leave behind that do not parse
Garbage == <<<<NonInt>>>>

\* a table cut off in its last row no longer parses; neither does the cut of
\* a one-line file once something else is appended
Truncated(lines) ==
    IF Len(lines) >= 2 /\ Len(lines[Len(lines)]) >= 2
    THEN [lines EXCEPT ![Len(lines)] = SubSeq(@, 1, Len(@) - 1)]
    ELSE Garbage

\* ------------------------------------------------------------------ state
VARIABLES
    fs,          \* path -> file
    dirExists,   \* the directory cached_embeddings/ exists
    pc,          \* per call: idle, build, load, search, mkdir, save
    local,       \* the locals of embed_square_lattice
    obs,         \* per call: what the call did so far (stub counters)
    ret,         \* per caller: how its last call ended
    persisted,   \* path -> <<T>> after a fallback returned T, <<>> after an external change
    graphLog,    \* the graphs returned so far, with L and the path taken
    nEvents      \* calls and external changes so far

vars == <<fs, dirExists, pc, local, obs, ret, persisted, graphLog, nEvents>>

NoRet == [kind |-> "none", exc |-> "", embeddings |-> <<>>, bqm |-> EmptyBQM]

NoLocal == [solver_name |-> "", L |-> 0, try_to_load |-> TRUE, bqm |-> EmptyBQM,
            cache_filename |-> "", embeddings |-> <<>>, found |-> <<>>]

NoObs == [searchCalls |-> 0, searchRaised |-> 0, mkdirCalls |-> 0,
          reads |-> {}, writes |-> {}, loaded |-> "none",
          fs0 |-> [q \in Paths |-> Absent], prior |-> <<>>,
          after |-> {}]   \* the calls whose write this call's write followed

Init ==
    /\ fs = [q \in Paths |-> Absent]
    /\ dirExists = FALSE
    /\ pc = [p \in Procs |-> "idle"]
    /\ local = [p \in Procs |-> NoLocal]
    /\ obs = [p \in Procs |-> NoObs]
    /\ ret = [p \in Procs |-> NoRet]
    /\ persisted = [q \in Paths |-> <<>>]
    /\ graphLog = {}
    /\ nEvents = 0

AllIdle == \A p \in Procs : pc[p] = "idle"

Raise(p, exc) ==
    /\ pc' = [pc EXCEPT ![p] = "idle"]
    /\ UNCHANGED graphLog
    /\ ret' = [ret EXCEPT ![p] = [kind |-> "raise", exc |-> exc,
                                  embeddings |-> <<>>, bqm |-> EmptyBQM]]

Return(p, embeddings, bqm) ==
    /\ pc' = [pc EXCEPT ![p] = "idle"]
    /\ graphLog' = graphLog \cup {[L |-> local[p].L, hit |-> (obs[p].searchCalls = 0),
                                   bqm |-> bqm]}
    /\ ret' = [ret EXCEPT ![p] = [kind |-> "return", exc |-> "",
                                  embeddings |-> <<embeddings>>, bqm |-> bqm]]

\* ------------------------------------------------- embed_square_lattice
\* the caller enters embed_square_lattice(sampler, L, try_to_load)
Call(p, solver_name, L, try_to_load) ==
    /\ pc[p] = "idle"
    /\ nEvents < MaxEvents
    /\ nEvents' = nEvents + 1
    /\ pc' = [pc EXCEPT ![p] = "build"]
    /\ local' = [local EXCEPT ![p] = [NoLocal EXCEPT !.solver_name = solver_name,
                                                      !.L = L,
                                                      !.try_to_load = try_to_load]]
    /\ obs' = [obs EXCEPT ![p] = [NoObs EXCEPT
                  !.fs0 = fs,
                  !.prior = persisted[cache_filename(solver_name, L)]]]
    /\ ret' = [ret EXCEPT ![p] = NoRet]
    /\ UNCHANGED <<fs, dirExists, persisted, graphLog>>

\* lines 37-56: the BQM, the graphs and the cache file name
Build(p) ==
    /\ pc[p] = "build"
    /\ LET bqm == BuildBQM(local[p].L)
       IN  IF bqm.err
           THEN /\ Raise(p, "ValueError")
                /\ UNCHANGED local
           ELSE /\ local' = [local EXCEPT ![p].bqm = bqm,
                                          ![p].cache_filename =
                                              cache_filename(local[p].solver_name, local[p].L)]
                /\ pc' = [pc EXCEPT ![p] = IF local[p].try_to_load THEN "load" ELSE "mkdir"]
                /\ UNCHANGED <<ret, graphLog>>
    /\ UNCHANGED <<fs, dirExists, obs, persisted, nEvents>>

ExceptClause_all ==
    {"ValueError", "FileNotFoundError", "PermissionError", "IsADirectoryError"}

ExceptClause_fnf == {"FileNotFoundError"}

\* line 63: except (ValueError, FileNotFoundError)
ExceptClause == {"ValueError", "FileNotFoundError"}

LoadHit_noreturn(p, file) ==
    /\ local' = [local EXCEPT ![p].embeddings = <<loadtxt(file)>>]
    /\ pc' = [pc EXCEPT ![p] = "mkdir"]
    /\ UNCHANGED <<ret, graphLog>>

LoadHit_earlygraph(p, file) ==
    /\ Return(p, loadtxt(file), [EmptyBQM EXCEPT !.variables = AddVariables(local[p].L)])
    /\ local' = [local EXCEPT ![p].embeddings = <<loadtxt(file)>>]

\* lines 60-62: the file parsed; return what was loaded and the BQM
LoadHit(p, file) ==
    /\ Return(p, loadtxt(file), local[p].bqm)
    /\ local' = [local EXCEPT ![p].embeddings = <<loadtxt(file)>>]

\* lines 57-66: np.loadtxt inside try/except
Load(p) ==
    /\ pc[p] = "load"
    /\ LET file == fs[local[p].cache_filename]
           exc  == loadtxt_raises(file)
       IN  /\ obs' = [obs EXCEPT ![p].reads = @ \cup {local[p].cache_filename},
                                 ![p].loaded = IF exc = "" THEN "ok" ELSE exc]
           /\ IF exc = ""
              THEN LoadHit(p, file)
              ELSE IF exc \in ExceptClause
              THEN /\ pc' = [pc EXCEPT ![p] = "search"]
                   /\ UNCHANGED <<local, ret, graphLog>>
              ELSE /\ Raise(p, exc)
                   /\ UNCHANGED local
    /\ UNCHANGED <<fs, dirExists, persisted, nEvents>>

Search_retry(p) ==
    /\ pc[p] = "search"
    /\ \/ /\ obs[p].searchCalls = 0
          /\ obs' = [obs EXCEPT ![p].searchCalls = @ + 1, ![p].searchRaised = @ + 1]
          /\ UNCHANGED <<pc, local, ret, graphLog>>
       \/ \E found \in raster_embedding_search(Len(local[p].bqm.variables)) :
             /\ local' = [local EXCEPT
                   ![p].found = found,
                   ![p].embeddings =
                       <<embeddings_to_ndarray(found, sorted(local[p].bqm.variables))>>]
             /\ obs' = [obs EXCEPT ![p].searchCalls = @ + 1]
             /\ pc' = [pc EXCEPT ![p] = "mkdir"]
             /\ UNCHANGED <<ret, graphLog>>
    /\ UNCHANGED <<fs, dirExists, persisted, nEvents>>

\* lines 68-76: the lower bound, the search and the conversion to a table;
\* the search returns a list of embeddings or raises
Search(p) ==
    /\ pc[p] = "search"
    /\ \/ /\ Raise(p, "SearchError")
          /\ obs' = [obs EXCEPT ![p].searchCalls = @ + 1, ![p].searchRaised = @ + 1]
          /\ UNCHANGED local
       \/ \E found \in raster_embedding_search(Len(local[p].bqm.variables)) :
             /\ local' = [local EXCEPT
                   ![p].found = found,
                   ![p].embeddings =
                       <<embeddings_to_ndarray(found, sorted(local[p].bqm.variables))>>]
             /\ obs' = [obs EXCEPT ![p].searchCalls = @ + 1]
             /\ pc' = [pc EXCEPT ![p] = "mkdir"]
             /\ UNCHANGED <<ret, graphLog>>
    /\ UNCHANGED <<fs, dirExists, persisted, nEvents>>

\* line 78: os.makedirs('cached_embeddings/', exist_ok=True)
Makedirs(p) ==
    /\ pc[p] = "mkdir"
    /\ dirExists' = TRUE
    /\ obs' = [obs EXCEPT ![p].mkdirCalls = @ + 1]
    /\ pc' = [pc EXCEPT ![p] = "save"]
    /\ UNCHANGED <<fs, local, ret, persisted, graphLog, nEvents>>

Save_keepexisting(p) ==
    /\ pc[p] = "save"
    /\ IF local[p].embeddings = <<>>
       THEN /\ Raise(p, "UnboundLocalError")
            /\ UNCHANGED <<fs, obs, persisted>>
       ELSE IF fs[local[p].cache_filename].kind \in {"noperm", "isdir"}
       THEN /\ Raise(p, IF fs[local[p].cache_filename].kind = "isdir"
                        THEN "IsADirectoryError" ELSE "PermissionError")
            /\ UNCHANGED <<fs, obs, persisted>>
       ELSE /\ fs' = [fs EXCEPT ![local[p].cache_filename] =
                          IF @.kind = "text" THEN @
                          ELSE TextFile(savetxt(local[p].embeddings[1]))]
            /\ obs' = [obs EXCEPT
                  ![p].writes = @ \cup {local[p].cache_filename},
                  ![p].after = {q \in Procs \ {p} :
                                  local[p].cache_filename \in obs[q].writes}]
            /\ persisted' = [persisted EXCEPT ![local[p].cache_filename] =
                                                  <<local[p].embeddings[1]>>]
            /\ Return(p, local[p].embeddings[1], local[p].bqm)
    /\ UNCHANGED <<dirExists, local, nEvents>>

\* lines 79-81: np.savetxt and the return; the name embeddings is bound only
\* if the search ran
Save(p) ==
    /\ pc[p] = "save"
    /\ IF local[p].embeddings = <<>>
       THEN /\ Raise(p, "UnboundLocalError")
            /\ UNCHANGED <<fs, obs, persisted>>
       ELSE IF fs[local[p].cache_filename].kind \in {"noperm", "isdir"}
       THEN /\ Raise(p, IF fs[local[p].cache_filename].kind = "isdir"
                        THEN "IsADirectoryError" ELSE "PermissionError")
            /\ UNCHANGED <<fs, obs, persisted>>
       ELSE /\ fs' = [fs EXCEPT ![local[p].cache_filename] =
                                    TextFile(savetxt(local[p].embeddings[1]))]
            /\ obs' = [obs EXCEPT
                  ![p].writes = @ \cup {local[p].cache_filename},
                  ![p].after = {q \in Procs \ {p} :
                                  local[p].cache_filename \in obs[q].writes}]
            /\ persisted' = [persisted EXCEPT ![local[p].cache_filename] =
                                                  <<local[p].embeddings[1]>>]
            /\ Return(p, local[p].embeddings[1], local[p].bqm)
    /\ UNCHANGED <<dirExists, local, nEvents>>

\* ------------------------------------------------------ external changes
\* between calls, something else deletes, corrupts or locks a cache file
External(path, file) ==
    /\ AllIdle
    /\ nEvents < MaxEvents
    /\ fs[path] # file
    /\ nEvents' = nEvents + 1
    /\ fs' = [fs EXCEPT ![path] = file]
    /\ dirExists' = (dirExists \/ file.kind # "absent")
    /\ persisted' = [persisted EXCEPT ![path] = <<>>]
    /\ ret' = [p \in Procs |-> NoRet]
    /\ UNCHANGED <<pc, local, obs, graphLog>>

ExtDelete(path) == External(path, Absent)

\* an existing table is cut off, any other file is replaced by garbage
ExtCorrupt(path) ==
    External(path, TextFile(IF fs[path].kind = "text" THEN Truncated(fs[path].lines)
                            ELSE Garbage))

\* an existing file loses its read permission; where there is none, a
\* directory takes the name
ExtUnreadable(path) ==
    External(path, [kind |-> IF fs[path].kind = "absent" THEN "isdir" ELSE "noperm",
                    lines |-> <<>>])

\* one caller at a time
Next ==
    \/ \E p \in Callers, c \in Chips, L \in Ls, t \in BOOLEAN : AllIdle /\ Call(p, c, L, t)
    \/ \E p \in Procs : Build(p)
    \/ \E p \in Procs : Load(p)
    \/ \E p \in Procs : Search(p)
    \/ \E p \in Procs : Makedirs(p)
    \/ \E p \in Procs : Save(p)
    \/ \E q \in Paths : ExtDelete(q)
    \/ \E q \in Paths : ExtCorrupt(q)
    \/ \E q \in Paths : ExtUnreadable(q)

Spec == Init /\ [][Next]_vars

\* two callers, one call each, their steps interleaved; nothing locks the file
NextConcurrent ==
    \/ \E p \in Procs, c \in Chips, L \in Ls, t \in BOOLEAN :
          local[p].L = 0 /\ Call(p, c, L, t)
    \/ \E p \in Procs : Build(p)
    \/ \E p \in Procs : Load(p)
    \/ \E p \in Procs : Search(p)
    \/ \E p \in Procs : Makedirs(p)
    \/ \E p \in Procs : Save(p)

SpecConcurrent == Init /\ [][NextConcurrent]_vars

\* ---------------------------------------------------------------- claims
Done(p)     == pc[p] = "idle" /\ ret[p].kind # "none"
Returned(p) == pc[p] = "idle" /\ ret[p].kind = "return"
\* the call got past lines 37-56
Built(p)    == local[p].cache_filename # ""
KeyFile(p)  == fs[local[p].cache_filename]
Before(p)   == obs[p].fs0[local[p].cache_filename]
ParityWeight(x, y) == IF (x + y) % 2 = 1 THEN 1 ELSE -1
RowEdge(L, x, y) == {x * L + y, x * L + ((y + 1) % L)}

\* C1 (as claimed): a call with try_to_load=False that built its graph never
\* attempts the load, invokes the search exactly once, returns the table and
\* leaves that table in the cache file of its key.
C1_NoLoadSearchesAndOverwrites ==
    \A p \in Procs :
        (Done(p) /\ Built(p) /\ ~local[p].try_to_load) =>
            /\ obs[p].loaded = "none"
            /\ obs[p].searchCalls = 1
            /\ ret[p].kind = "return"
            /\ KeyFile(p) = TextFile(savetxt(ret[p].embeddings[1]))

\* C2 (as claimed): once a fallback returned T for a key and the file was not
\* changed externally, a call with try_to_load=True for that key reads the
\* cache, never searches and returns a table equal to T, shape included.
C2_RoundTripReturnsSameTable ==
    \A p \in Procs :
        (Done(p) /\ local[p].try_to_load /\ obs[p].prior # <<>>) =>
            /\ obs[p].loaded = "ok"
            /\ obs[p].searchCalls = 0
            /\ ret[p].kind = "return"
            /\ ret[p].embeddings[1] = obs[p].prior[1]

\* C3: with try_to_load=True and a cache file that is absent or does not
\* parse, the read failure is not propagated, the search is invoked exactly
\* once, and when the call returns it returns the computed table and the
\* cache file holds exactly that table; absent and corrupt files alike.
C3_MissOrCorruptFallsBack ==
    \A p \in Procs :
        (Done(p) /\ Built(p) /\ local[p].try_to_load
           /\ (Before(p).kind = "absent"
                 \/ (Before(p).kind = "text" /\ loadtxt_raises(Before(p)) # ""))) =>
            /\ obs[p].searchCalls = 1
            /\ ret[p].kind = "raise" => ret[p].exc = "SearchError"
            /\ ret[p].kind = "return" =>
                  /\ ret[p].embeddings[1] =
                        embeddings_to_ndarray(local[p].found, sorted(local[p].bqm.variables))
                  /\ KeyFile(p) = TextFile(savetxt(ret[p].embeddings[1]))

C3_Witness ==
    \E p \in Procs :
        /\ Returned(p) /\ local[p].try_to_load
        /\ Before(p).kind = "text" /\ loadtxt_raises(Before(p)) = "ValueError"
        /\ obs[p].searchCalls = 1
        /\ KeyFile(p) # Before(p)

\* C4 (as claimed): every failure of the cache read, unreadable files
\* included, is a cache miss: it is not propagated and the fallback runs.
C4_EveryReadFailureIsAMiss ==
    \A p \in Procs :
        (Done(p) /\ local[p].try_to_load /\ obs[p].loaded \notin {"none", "ok"}) =>
            /\ obs[p].searchCalls = 1
            /\ ret[p].kind = "raise" => ret[p].exc # obs[p].loaded

\* C4 (amended): a read that fails with ValueError or FileNotFoundError is a
\* cache miss (not propagated, the fallback runs); a read that fails with any
\* other error (PermissionError, IsADirectoryError) is propagated to the
\* caller, and then no search, no directory creation and no write happens.
C4_OnlyCaughtFailuresAreMisses ==
    \A p \in Procs :
        (Done(p) /\ local[p].try_to_load /\ obs[p].loaded \notin {"none", "ok"}) =>
            IF obs[p].loaded \in {"ValueError", "FileNotFoundError"}
            THEN /\ obs[p].searchCalls = 1
                 /\ ret[p].kind = "raise" => ret[p].exc = "SearchError"
            ELSE /\ ret[p].kind = "raise" /\ ret[p].exc = obs[p].loaded
                 /\ obs[p].searchCalls = 0
                 /\ obs[p].mkdirCalls = 0
                 /\ obs[p].writes = {}
                 /\ KeyFile(p) = Before(p)

C4_Witness ==
    \E p \in Procs :
        /\ Done(p) /\ Built(p) /\ local[p].try_to_load
        /\ Before(p).kind \in {"noperm", "isdir"}
        /\ ret[p].kind = "raise"
        /\ ret[p].exc \in {"PermissionError", "IsADirectoryError"}

\* C5: with try_to_load=True and a cache file that parses, the call returns
\* the parsed table and the constructed graph, with no search, no directory
\* creation and no write; and a call that attempted the read has searched
\* only if the read failed.
C5_HitReturnsWithoutEffects ==
    \A p \in Procs :
        /\ (Done(p) /\ Built(p) /\ local[p].try_to_load
              /\ Before(p).kind = "text" /\ loadtxt_raises(Before(p)) = "") =>
                /\ ret[p].kind = "return"
                /\ ret[p].embeddings[1] = loadtxt(Before(p))
                /\ ret[p].bqm = BuildBQM(local[p].L)
                /\ obs[p].searchCalls = 0
                /\ obs[p].mkdirCalls = 0
                /\ obs[p].writes = {}
                /\ fs = obs[p].fs0
        /\ (obs[p].reads # {} /\ obs[p].searchCalls > 0) =>
                obs[p].loaded \notin {"none", "ok"}

C5_Witness ==
    \E p \in Procs :
        /\ Returned(p) /\ local[p].try_to_load
        /\ obs[p].loaded = "ok"
        /\ Len(ret[p].embeddings[1].shape) = 2

\* C6: the cache path is injective in (chip_id, L) for positive L, and a call
\* reads and writes only the path of its own key: the cache file of every
\* other key is as it was when the call began.
MaxPathL == 12
PathKeys == Chips \X (1..MaxPathL)

PathsInjective ==
    \A k1 \in PathKeys, k2 \in PathKeys :
        k1 # k2 => cache_filename(k1[1], k1[2]) # cache_filename(k2[1], k2[2])

C6_KeyIsolation ==
    /\ PathsInjective
    /\ \A p \in Procs :
          (Built(p) /\ (pc[p] # "idle" \/ Done(p))) =>
              /\ obs[p].reads \subseteq {cache_filename(local[p].solver_name, local[p].L)}
              /\ obs[p].writes \subseteq {cache_filename(local[p].solver_name, local[p].L)}
              /\ \A k \in Keys :
                    k # <<local[p].solver_name, local[p].L>> =>
                        fs[cache_filename(k[1], k[2])] = obs[p].fs0[cache_filename(k[1], k[2])]

C6_Witness ==
    \E p \in Procs :
        /\ Returned(p) /\ obs[p].writes # {} /\ obs[p].reads # {}
        /\ \E k \in Keys :
              /\ k # <<local[p].solver_name, local[p].L>>
              /\ k[2] = local[p].L
              /\ fs[cache_filename(k[1], k[2])].kind = "text"

\* C7: when the search raises, the call ends with that failure, the search
\* was invoked exactly once in the call, and the cache file of the key is
\* exactly as it was before the call.
C7_SearchFailurePropagates ==
    \A p \in Procs :
        (Done(p) /\ obs[p].searchRaised > 0) =>
            /\ ret[p].kind = "raise" /\ ret[p].exc = "SearchError"
            /\ obs[p].searchCalls = 1
            /\ obs[p].writes = {}
            /\ KeyFile(p) = Before(p)

C7_Witness ==
    \E p \in Procs :
        /\ Done(p) /\ obs[p].searchRaised = 1
        /\ ret[p].exc = "SearchError"
        /\ Before(p).kind = "text"

\* C8 (as claimed): for every L and every x, y in 0..L-1 the graph has the
\* edge between x*L+y and x*L+((y+1) mod L) with weight +1 for odd x+y and
\* -1 for even x+y.
C8_RowEdgeWeightByParity ==
    \A p \in Procs :
        Built(p) =>
            \A x \in 0..(local[p].L - 1), y \in 0..(local[p].L - 1) :
                /\ RowEdge(local[p].L, x, y) \in DOMAIN local[p].bqm.quadratic
                /\ local[p].bqm.quadratic[RowEdge(local[p].L, x, y)] = ParityWeight(x, y)

\* C8 (amended): for every L >= 3 and every x, y in 0..L-1 the graph has the
\* edge between x*L+y and x*L+((y+1) mod L) with weight +1 for odd x+y and
\* -1 for even x+y; for L = 2 the node set is {0,1,2,3} and the edge between
\* x*2 and x*2+1 keeps the weight set last, for y = 1: +1 for node 0 and
\* node 1, -1 for node 2 and node 3.
C8_RowEdgeWeightFromL3 ==
    \A p \in Procs :
        Built(p) =>
            /\ local[p].L >= 3 =>
                  \A x \in 0..(local[p].L - 1), y \in 0..(local[p].L - 1) :
                      /\ RowEdge(local[p].L, x, y) \in DOMAIN local[p].bqm.quadratic
                      /\ local[p].bqm.quadratic[RowEdge(local[p].L, x, y)] = ParityWeight(x, y)
            /\ local[p].L = 2 =>
                  /\ {local[p].bqm.variables[i] : i \in 1..Len(local[p].bqm.variables)}
                        = {0, 1, 2, 3}
                  /\ local[p].bqm.quadratic[{0, 1}] = 1
                  /\ local[p].bqm.quadratic[{2, 3}] = -1

C8_Witness ==
    \E p \in Procs :
        /\ Returned(p) /\ local[p].L = 3 /\ ret[p].bqm = local[p].bqm
        /\ \E g \in graphLog : g.L = 2 /\ g.bqm.quadratic[{0, 1}] = 1

\* C9: the returned graph depends only on L: any two graphs returned for the
\* same L, by a cache hit or by a fallback, have the same nodes, edges and
\* weights.
C9_GraphDependsOnlyOnL ==
    \A a \in graphLog, b \in graphLog :
        a.L = b.L =>
            /\ a.bqm.variables = b.bqm.variables
            /\ DOMAIN a.bqm.quadratic = DOMAIN b.bqm.quadratic
            /\ a.bqm.quadratic = b.bqm.quadratic

C9_Witness ==
    \E a \in graphLog, b \in graphLog :
        /\ a.L = b.L /\ a.hit /\ ~b.hit
        /\ DOMAIN a.bqm.quadratic # {}

\* C10: in every table a fallback produced and wrote, column j of row i is
\* the target node that the i-th embedding returned by the search assigns to
\* logical node j, for j ascending over 0..L*L-1, whatever order the search
\* listed the mappings in.
C10_ColumnIsLogicalNode ==
    \A p \in Procs :
        (Returned(p) /\ obs[p].searchCalls > 0 /\ local[p].found # <<>>) =>
            LET n == local[p].L * local[p].L
                T == ret[p].embeddings[1]
            IN  /\ T.shape = <<Len(local[p].found), n>>
                /\ KeyFile(p).kind = "text"
                /\ Len(KeyFile(p).lines) = Len(local[p].found)
                /\ \A i \in 1..Len(local[p].found) : \A j \in 0..(n - 1) :
                      /\ T.data[(i - 1) * n + j + 1] = Lookup(local[p].found[i], j)
                      /\ KeyFile(p).lines[i][j + 1] = Lookup(local[p].found[i], j)

C10_Witness ==
    \E p \in Procs :
        /\ Returned(p) /\ obs[p].searchCalls > 0
        /\ Len(local[p].found) = 2
        /\ local[p].found[1][1][1] # 0
        /\ local[p].found[2][1][1] = 0

\* C11: when two concurrent calls for the same key, both with
\* try_to_load=True and the cache file absent, have both missed the cache,
\* both searched and both returned, the cache file holds the table of the call
\* that wrote last; the table of the earlier writer is gone.
BothFellBack(p, q) ==
    /\ p # q
    /\ Returned(p) /\ Returned(q)
    /\ local[p].cache_filename = local[q].cache_filename
    /\ local[p].try_to_load /\ local[q].try_to_load
    /\ Before(p) = Absent /\ Before(q) = Absent
    /\ obs[p].loaded = "FileNotFoundError" /\ obs[q].loaded = "FileNotFoundError"
    /\ obs[p].searchCalls = 1 /\ obs[q].searchCalls = 1

C11_LastWriterWins ==
    \A p \in Procs, q \in Procs :
        (BothFellBack(p, q) /\ p \in obs[q].after) =>
            /\ q \notin obs[p].after
            /\ KeyFile(q) = TextFile(savetxt(ret[q].embeddings[1]))
            /\ ret[p].embeddings[1] # ret[q].embeddings[1] =>
                  KeyFile(q) # TextFile(savetxt(ret[p].embeddings[1]))

C11_Witness ==
    \E p \in Procs, q \in Procs :
        /\ BothFellBack(p, q) /\ p \in obs[q].after
        /\ Len(ret[p].embeddings[1].shape) = 2 /\ Len(ret[q].embeddings[1].shape) = 2
        /\ ret[p].embeddings[1] # ret[q].embeddings[1]
        /\ KeyFile(q) = TextFile(savetxt(ret[q].embeddings[1]))

====
